---------------------------- MODULE Spec2Model ----------------------------
(***************************************************************************)
(* The exported C API of the FyteClub native WebRTC layer, as implemented  *)
(* by its four builds:                                                     *)
(*   "simple"   src/native/simple_webrtc.cpp                               *)
(*   "minimal"  src/native/minimal_webrtc.cpp                              *)
(*   "mock"     src/native/webrtc_wrapper.cpp, #else branch                *)
(*   "ldc"      src/native/webrtc_wrapper.cpp, USE_LIBDATACHANNEL branch   *)
(*                                                                         *)
(* A behaviour is one sequence of API calls.  The variable run holds the   *)
(* builds the sequence is applied to: one build alone, or the three        *)
(* stand-in builds side by side, every call made with the same arguments   *)
(* to each of them.                                                        *)
(*                                                                         *)
(* A WebRTCPeer* is a slot number; 0 is the null pointer.  delete leaves   *)
(* the caller's pointer dangling: a later call through it is undefined     *)
(* behaviour, modelled as a choice between a crash and a read of either    *)
(* boolean from the released memory; operator new may hand a released      *)
(* slot out again, which makes a dangling pointer alias the new peer.      *)
(*                                                                         *)
(* Inputs are C strings and byte buffers; char* arguments are non-null,    *)
(* stun_server is well formed.                                             *)
(***************************************************************************)
EXTENDS Integers, Sequences, FiniteSets

\* ---------------------------------------------------------------- bounds
MaxSends == 1      \* successful sends of one behaviour
MaxLen == 1        \* longest payload, in bytes

\* ------------------------------------------------------------- constants
NULL == 0
MockHandle == 305419896      \* (void*)0x12345678
OK == 0                      \* return 0
FAIL == -1                   \* return -1

Backends == {"simple", "minimal", "mock", "ldc"}
\* the builds the spec calls interchangeable stand-ins
StandIns == {"minimal", "simple", "mock"}
\* builds that export CreateAnswer and SetRemoteDescription
Signalling == {"simple", "minimal"}

\* the two peer slots of the heap: connection A and connection B
PeerIds == {1, 2}

OfferSdp == "offer"      \* the literal CreateOffer stores
AnswerSdp == "answer"    \* the literal CreateAnswer stores
SdpArgs == {"", OfferSdp, AnswerSdp}

Bytes == {7}
RECURSIVE SeqsUpTo(_)
SeqsUpTo(n) ==
    IF n = 0 THEN {<<>>}
    ELSE LET S == SeqsUpTo(n - 1)
         IN  S \cup {Append(s, x) : s \in {t \in S : Len(t) = n - 1}, x \in Bytes}
\* a buffer is the null pointer (with length 0) or a byte sequence
NullData == <<NULL>>
Buffers == SeqsUpTo(MaxLen)
DataArgs == {[data |-> NullData, length |-> 0]}
            \cup {[data |-> d, length |-> Len(d)] : d \in Buffers}

UBOutcomes == {"crash", "readT", "readF"}

VARIABLES
    run,       \* the builds this behaviour drives
    heap,      \* heap[b][p]: the WebRTCPeer at slot p in build b
    dcObj,     \* ldc: dcObj[p], the rtc::DataChannel object peer p created last
    wire,      \* ldc: wire[p], the payloads in flight on that channel
    hnd,       \* hnd[b][p]: the channel handle the caller got last for peer p
    sent,      \* sent[b][h]: payloads of the successful sends on handle h
    recv,      \* recv[b][h]: payloads delivered to the far end of channel h
    rt,        \* rt[a][c]: progress of the offer/answer round trip a -> c
    crashed,   \* crashed[b]: build b's process has died
    late       \* ldc: late[p], the negotiation of a PeerConnection slot p
               \* has dropped: "none", "pending" inside the library, or
               \* "ignored" when the step just taken is its completion

vars == <<run, heap, dcObj, wire, hnd, sent, recv, rt, crashed, late>>

\* ------------------------------------------------------------ the struct
\* struct WebRTCPeer, the union of the four definitions; a field a build
\* does not declare stays at its default in that build.
FreshPeer ==
    [mem |-> "live", initialized |-> FALSE, connected |-> FALSE,
     local_sdp |-> "", remote_sdp |-> "", data_channel |-> NULL,
     pc |-> "null", dc |-> NULL, frees |-> "never"]

NoPeer == [FreshPeer EXCEPT !.mem = "unalloc"]

\* delete: the slot is released, its contents are indeterminate from here
\* on; frees tells whether this allocation was released "never", "once" or
\* "twice" (a second delete of the same pointer)
Released(pr) ==
    [NoPeer EXCEPT !.mem = "freed",
                   !.frees = IF pr.frees = "never" THEN "once" ELSE "twice"]

\* what a read of a bool field yields: the field, or u from released memory
Rd(pr, field, u) == IF pr.mem = "live" THEN pr[field] ELSE u = "readT"

\* ------------------------------------------- src/native/simple_webrtc.cpp
\* Every operator below takes the build's heap h and yields the heap after
\* the call and the value returned.
Simple_CreatePeerConnection == FreshPeer

\* a variant that refuses a second initialization
Simple_InitializePeerConnection_Once(h, p, u) ==
    IF p = NULL \/ Rd(h[p], "initialized", u) THEN [heap |-> h, ret |-> FAIL]
    ELSE [heap |-> [h EXCEPT ![p].initialized = TRUE], ret |-> OK]

\* a variant that starts the session over on every initialization
Simple_InitializePeerConnection_Reset(h, p, u) ==
    IF p = NULL THEN [heap |-> h, ret |-> FAIL]
    ELSE [heap |-> [h EXCEPT ![p].initialized = TRUE, ![p].connected = FALSE],
          ret |-> OK]

Simple_InitializePeerConnection(h, p, u) ==
    IF p = NULL THEN [heap |-> h, ret |-> FAIL]
    ELSE [heap |-> [h EXCEPT ![p].initialized = TRUE], ret |-> OK]

Simple_CreateDataChannel(h, p, u) ==
    IF p = NULL \/ ~Rd(h[p], "initialized", u)
    THEN [heap |-> h, ret |-> NULL]
    ELSE [heap |-> h, ret |-> MockHandle]

\* a variant that lets only the first offer or answer through
Simple_CreateOffer_Once(h, p, u) ==
    IF p = NULL \/ ~Rd(h[p], "initialized", u) \/ h[p].local_sdp # ""
    THEN [heap |-> h, ret |-> FAIL]
    ELSE [heap |-> [h EXCEPT ![p].local_sdp = OfferSdp], ret |-> OK]

Simple_CreateOffer(h, p, u) ==
    IF p = NULL \/ ~Rd(h[p], "initialized", u)
    THEN [heap |-> h, ret |-> FAIL]
    ELSE [heap |-> [h EXCEPT ![p].local_sdp = OfferSdp], ret |-> OK]

\* a variant that records the offer before it tests initialized
Simple_CreateAnswer_StoreFirst(h, p, offer_sdp, u) ==
    IF p = NULL THEN [heap |-> h, ret |-> FAIL]
    ELSE IF ~Rd(h[p], "initialized", u)
    THEN [heap |-> [h EXCEPT ![p].remote_sdp = offer_sdp], ret |-> FAIL]
    ELSE [heap |-> [h EXCEPT ![p].remote_sdp = offer_sdp,
                             ![p].local_sdp = AnswerSdp],
          ret |-> OK]

\* a variant without the test of initialized
Simple_CreateAnswer_NoGuard(h, p, offer_sdp, u) ==
    IF p = NULL
    THEN [heap |-> h, ret |-> FAIL]
    ELSE [heap |-> [h EXCEPT ![p].remote_sdp = offer_sdp,
                             ![p].local_sdp = AnswerSdp],
          ret |-> OK]

Simple_CreateAnswer(h, p, offer_sdp, u) ==
    IF p = NULL \/ ~Rd(h[p], "initialized", u)
    THEN [heap |-> h, ret |-> FAIL]
    ELSE [heap |-> [h EXCEPT ![p].remote_sdp = offer_sdp,
                             ![p].local_sdp = AnswerSdp],
          ret |-> OK]

\* a variant that records the description and forgets to mark the peer
Simple_SetRemoteDescription_NoConnect(h, p, sdp, u) ==
    IF p = NULL \/ ~Rd(h[p], "initialized", u)
    THEN [heap |-> h, ret |-> FAIL]
    ELSE [heap |-> [h EXCEPT ![p].remote_sdp = sdp], ret |-> OK]

Simple_SetRemoteDescription(h, p, sdp, u) ==
    IF p = NULL \/ ~Rd(h[p], "initialized", u)
    THEN [heap |-> h, ret |-> FAIL]
    ELSE [heap |-> [h EXCEPT ![p].remote_sdp = sdp,
                             ![p].connected = TRUE],
          ret |-> OK]

Simple_SendData(data_channel, data, length) ==
    IF data_channel = NULL THEN FAIL ELSE OK

\* delete peer: the slot is released; a second delete releases it again
Simple_DestroyPeerConnection(h, p) ==
    IF p # NULL
    THEN [heap |-> [h EXCEPT ![p] = Released(@)], ret |-> OK]
    ELSE [heap |-> h, ret |-> OK]

\* ------------------------------------------ src/native/minimal_webrtc.cpp
Minimal_CreatePeerConnection == [FreshPeer EXCEPT !.initialized = TRUE]

Minimal_InitializePeerConnection(h, p, u) ==
    IF p = NULL THEN [heap |-> h, ret |-> FAIL]
    ELSE [heap |-> [h EXCEPT ![p].initialized = TRUE], ret |-> OK]

Minimal_CreateDataChannel(h, p, u) ==
    IF p = NULL \/ ~Rd(h[p], "initialized", u)
    THEN [heap |-> h, ret |-> NULL]
    ELSE [heap |-> [h EXCEPT ![p].data_channel = MockHandle],
          ret |-> MockHandle]

Minimal_CreateOffer(h, p, u) ==
    IF p = NULL \/ ~Rd(h[p], "initialized", u)
    THEN [heap |-> h, ret |-> FAIL]
    ELSE [heap |-> h, ret |-> OK]

Minimal_CreateAnswer(h, p, offer_sdp, u) ==
    IF p = NULL \/ ~Rd(h[p], "initialized", u)
    THEN [heap |-> h, ret |-> FAIL]
    ELSE [heap |-> h, ret |-> OK]

Minimal_SetRemoteDescription(h, p, sdp, u) ==
    IF p = NULL \/ ~Rd(h[p], "initialized", u)
    THEN [heap |-> h, ret |-> FAIL]
    ELSE [heap |-> [h EXCEPT ![p].connected = TRUE], ret |-> OK]

Minimal_SendData(data_channel, data, length) ==
    IF data_channel = NULL THEN FAIL ELSE OK

Minimal_DestroyPeerConnection(h, p) ==
    IF p # NULL
    THEN [heap |-> [h EXCEPT ![p] = Released(@)], ret |-> OK]
    ELSE [heap |-> h, ret |-> OK]

\* ------------------------- src/native/webrtc_wrapper.cpp, the mock branch
Mock_CreatePeerConnection == FreshPeer

Mock_InitializePeerConnection(h, p, u) ==
    IF p = NULL THEN [heap |-> h, ret |-> FAIL]
    ELSE [heap |-> [h EXCEPT ![p].initialized = TRUE], ret |-> OK]

Mock_CreateDataChannel(h, p, u) ==
    IF p = NULL \/ ~Rd(h[p], "initialized", u)
    THEN [heap |-> h, ret |-> NULL]
    ELSE [heap |-> [h EXCEPT ![p].connected = TRUE], ret |-> MockHandle]

Mock_CreateOffer(h, p, u) ==
    [heap |-> h,
     ret |-> IF p # NULL /\ Rd(h[p], "initialized", u) THEN OK ELSE FAIL]

Mock_SendData(data_channel, data, length) ==
    IF data_channel # NULL /\ data # NullData /\ length > 0 THEN OK ELSE FAIL

\* delete peer, with no test: delete of the null pointer does nothing
Mock_DestroyPeerConnection(h, p) ==
    IF p # NULL
    THEN [heap |-> [h EXCEPT ![p] = Released(@)], ret |-> OK]
    ELSE [heap |-> h, ret |-> OK]

\* ------------- src/native/webrtc_wrapper.cpp, the USE_LIBDATACHANNEL branch
\* The ldc operators also take d, the rtc::DataChannel objects, and yield
\* them as dcObj.  peer->pc is "null", "idle" or "negotiating".  d[p] is the
\* DataChannel object peer p created last: "none" (not created), "created",
\* "open", "closed" (its PeerConnection is gone) or "freed" (its last
\* shared_ptr was dropped).  DcAddr(p) is its address, what dc.get() yields.
Ldc_CreatePeerConnection == FreshPeer

DcAddr(p) == p

\* peer->pc = make_shared<PeerConnection>: the PeerConnection held before
\* is dropped, which closes the channel it had opened
Ldc_InitializePeerConnection(h, d, p, u) ==
    IF p = NULL THEN [heap |-> h, dcObj |-> d, ret |-> FAIL]
    ELSE [heap |-> [h EXCEPT ![p].pc = "idle", ![p].initialized = TRUE],
          dcObj |-> IF h[p].mem = "live" /\ d[p] \in {"created", "open"}
                    THEN [d EXCEPT ![p] = "closed"] ELSE d,
          ret |-> OK]

\* peer->dc = pc->createDataChannel(label): the channel held before loses
\* its last owner, the new one takes its place
Ldc_CreateDataChannel(h, d, p, u) ==
    IF p = NULL \/ ~Rd(h[p], "initialized", u)
       \/ (h[p].mem = "live" /\ h[p].pc = "null")
    THEN [heap |-> h, dcObj |-> d, ret |-> NULL]
    ELSE [heap |-> [h EXCEPT ![p].dc = DcAddr(p)],
          dcObj |-> [d EXCEPT ![p] = "created"],
          ret |-> DcAddr(p)]

\* pc->setLocalDescription() starts the negotiation in the library
Ldc_CreateOffer(h, d, p, u) ==
    IF p = NULL \/ (h[p].mem = "live" /\ h[p].pc = "null")
       \/ (h[p].mem # "live" /\ u = "readF")
    THEN [heap |-> h, dcObj |-> d, ret |-> FAIL]
    ELSE [heap |-> [h EXCEPT ![p].pc = "negotiating"], dcObj |-> d, ret |-> OK]

\* the loop that copies data[0..length) into binary_data
RECURSIVE ToBinary(_, _, _)
ToBinary(data, length, i) ==
    IF i >= length THEN <<>>
    ELSE <<data[i + 1]>> \o ToBinary(data, length, i + 1)

\* w is the wire: the payloads dc->send has queued on each channel; isOpen()
\* of a released object reads released memory
Ldc_SendData(d, w, data_channel, data, length, u) ==
    LET isOpen == IF d[data_channel] = "freed" THEN u = "readT"
                  ELSE d[data_channel] = "open"
    IN  IF data_channel = NULL \/ ~isOpen THEN [wire |-> w, ret |-> FAIL]
        ELSE IF d[data_channel] = "freed" THEN [wire |-> w, ret |-> OK]
        ELSE [wire |-> [w EXCEPT ![data_channel] =
                            Append(@, ToBinary(data, length, 0))],
              ret |-> OK]

\* dc.reset(); pc.reset(); delete peer
Ldc_DestroyPeerConnection(h, d, p) ==
    IF p # NULL
    THEN [heap |-> [h EXCEPT ![p] = Released(@)],
          dcObj |-> IF h[p].mem = "live" /\ h[p].dc # NULL
                    THEN [d EXCEPT ![p] = "freed"] ELSE d,
          ret |-> OK]
    ELSE [heap |-> h, dcObj |-> d, ret |-> OK]

\* ------------------------------------------------------- the export table
\* What build b's export of each function does to a heap h and channel
\* objects d, as one record [heap, dcObj, ret].
Lift(r, d) == [heap |-> r.heap, dcObj |-> d, ret |-> r.ret]

Call_CreatePeerConnection(b) ==
    CASE b = "simple" -> Simple_CreatePeerConnection
      [] b = "minimal" -> Minimal_CreatePeerConnection
      [] b = "mock" -> Mock_CreatePeerConnection
      [] b = "ldc" -> Ldc_CreatePeerConnection

Call_InitializePeerConnection(b, h, d, p, u) ==
    CASE b = "simple" -> Lift(Simple_InitializePeerConnection(h, p, u), d)
      [] b = "minimal" -> Lift(Minimal_InitializePeerConnection(h, p, u), d)
      [] b = "mock" -> Lift(Mock_InitializePeerConnection(h, p, u), d)
      [] b = "ldc" -> Ldc_InitializePeerConnection(h, d, p, u)

Call_CreateDataChannel(b, h, d, p, u) ==
    CASE b = "simple" -> Lift(Simple_CreateDataChannel(h, p, u), d)
      [] b = "minimal" -> Lift(Minimal_CreateDataChannel(h, p, u), d)
      [] b = "mock" -> Lift(Mock_CreateDataChannel(h, p, u), d)
      [] b = "ldc" -> Ldc_CreateDataChannel(h, d, p, u)

Call_CreateOffer(b, h, d, p, u) ==
    CASE b = "simple" -> Lift(Simple_CreateOffer(h, p, u), d)
      [] b = "minimal" -> Lift(Minimal_CreateOffer(h, p, u), d)
      [] b = "mock" -> Lift(Mock_CreateOffer(h, p, u), d)
      [] b = "ldc" -> Ldc_CreateOffer(h, d, p, u)

\* CreateAnswer and SetRemoteDescription: no export in the other builds
Call_CreateAnswer(b, h, d, p, offer_sdp, u) ==
    CASE b = "simple" -> Lift(Simple_CreateAnswer(h, p, offer_sdp, u), d)
      [] b = "minimal" -> Lift(Minimal_CreateAnswer(h, p, offer_sdp, u), d)

Call_SetRemoteDescription(b, h, d, p, sdp, u) ==
    CASE b = "simple" -> Lift(Simple_SetRemoteDescription(h, p, sdp, u), d)
      [] b = "minimal" -> Lift(Minimal_SetRemoteDescription(h, p, sdp, u), d)

\* SendData touches no peer: it yields [wire, ret]
Call_SendData(b, d, w, data_channel, data, length, u) ==
    CASE b = "simple" ->
           [wire |-> w, ret |-> Simple_SendData(data_channel, data, length)]
      [] b = "minimal" ->
           [wire |-> w, ret |-> Minimal_SendData(data_channel, data, length)]
      [] b = "mock" ->
           [wire |-> w, ret |-> Mock_SendData(data_channel, data, length)]
      [] b = "ldc" -> Ldc_SendData(d, w, data_channel, data, length, u)

Call_DestroyPeerConnection(b, h, d, p) ==
    CASE b = "simple" -> Lift(Simple_DestroyPeerConnection(h, p), d)
      [] b = "minimal" -> Lift(Minimal_DestroyPeerConnection(h, p), d)
      [] b = "mock" -> Lift(Mock_DestroyPeerConnection(h, p), d)
      [] b = "ldc" -> Ldc_DestroyPeerConnection(h, d, p)

\* ------------------------------------------------------------ the caller
HandleVals == {MockHandle} \cup {DcAddr(p) : p \in PeerIds}

\* some process of the run is still alive to be called
Alive == \E b \in run : ~crashed[b]

\* The peer pointers the caller passes: null, or one create returned.  When
\* builds are driven side by side the caller passes no released pointer:
\* the comparison is of defined behaviour.
Known ==
    {p \in PeerIds : \E b \in run :
        \/ heap[b][p].mem = "live"
        \/ heap[b][p].mem = "freed" /\ Cardinality(run) = 1}
PeerArgs == IF Alive THEN {NULL} \cup Known ELSE {}

Live(b, p) == p # NULL /\ heap[b][p].mem = "live"
Dangling(b, p) == p # NULL /\ heap[b][p].mem = "freed"
DanglingDc(b, h) == b = "ldc" /\ h \in PeerIds /\ dcObj[h] = "freed"

\* one outcome of undefined behaviour for each build in D, none elsewhere
Choices(D) ==
    {[b \in Backends |-> IF b \in D THEN g[b] ELSE "readF"] :
        g \in [D -> UBOutcomes]}

\* Build b executes the call and returns from it: it drives b, b's process
\* is alive, and the undefined behaviour the call has (D: the builds where
\* it touches released memory) does not end in a crash.
Ran(b, D, uv) == b \in run /\ ~crashed[b] /\ ~(b \in D /\ uv[b] = "crash")

\* a store into a slot that is and stays released leaves nothing to read back
Stored(h, h2) ==
    [q \in PeerIds |->
        IF h[q].mem = "freed" /\ h2[q].mem = "freed" /\ h2[q].frees = h[q].frees
        THEN h[q] ELSE h2[q]]

\* the part of a step every call has: R[b] is what the export of b does
Commit(D, uv, R) ==
    /\ heap' = [b \in Backends |->
                  IF Ran(b, D, uv) THEN Stored(heap[b], R[b].heap) ELSE heap[b]]
    /\ dcObj' = IF Ran("ldc", D, uv) THEN R["ldc"].dcObj ELSE dcObj
    /\ crashed' = [b \in Backends |->
                     crashed[b] \/ (b \in run /\ b \in D /\ uv[b] = "crash")]

\* rt[a][c], kept for the simple build: 1 once CreateOffer succeeded on a,
\* 2 once CreateAnswer then succeeded on c with the offer a stores, 3 once
\* SetRemoteDescription then succeeded on a with the answer c stores; any
\* other call on a or c starts over.  4 once a send on a's channel has
\* succeeded after that.
RtAfter(op, p, sdp, ok) ==
    [a \in PeerIds |-> [c \in PeerIds |->
        IF "simple" \notin run \/ crashed["simple"] \/ p \notin {a, c} THEN rt[a][c]
        ELSE IF a = c \/ ~ok THEN 0
        ELSE IF op = "CreateOffer" /\ p = a THEN 1
        ELSE IF op = "CreateAnswer" /\ p = c /\ rt[a][c] = 1
                /\ sdp = heap["simple"][a].local_sdp THEN 2
        ELSE IF op = "SetRemoteDescription" /\ p = a /\ rt[a][c] = 2
                /\ sdp = heap["simple"][c].local_sdp THEN 3
        ELSE 0]]

RtSent(p, ok) ==
    [a \in PeerIds |-> [c \in PeerIds |->
        IF p = a /\ ok /\ rt[a][c] = 3 THEN 4 ELSE rt[a][c]]]

\* The end of a dropped negotiation touches nothing a call reads or writes,
\* so it commutes with every call: the caller's next call is taken after it.
Quiet == \A p \in PeerIds : late[p] # "pending"

\* late after a step: a completion the step before has ignored is history
Settled == [p \in PeerIds |-> IF late[p] = "ignored" THEN "none" ELSE late[p]]

\* ---------------------------------------------------------------- Init
Init ==
    /\ run \in {{b} : b \in Backends} \cup {StandIns}
    /\ heap = [b \in Backends |-> [p \in PeerIds |-> NoPeer]]
    /\ dcObj = [p \in PeerIds |-> "none"]
    /\ wire = [p \in PeerIds |-> <<>>]
    /\ hnd = [b \in Backends |-> [p \in PeerIds |-> NULL]]
    /\ sent = [b \in Backends |-> [h \in HandleVals |-> <<>>]]
    /\ recv = [b \in Backends |-> [h \in HandleVals |-> <<>>]]
    /\ rt = [a \in PeerIds |-> [c \in PeerIds |-> 0]]
    /\ crashed = [b \in Backends |-> FALSE]
    /\ late = [p \in PeerIds |-> "none"]

\* ------------------------------------------------------------- the calls
\* new WebRTCPeer(): the lowest slot never used, or a released one.  The
\* caller keeps the new pointer in place of the old one and drops the
\* channel handle it held for the old one, so the channel object the slot's
\* previous owner left behind, and its logs, are out of anyone's reach.
CreatePeerConnection(s) ==
    /\ Quiet
    /\ Alive
    /\ s \in PeerIds
    /\ \A b \in run : heap[b][s].mem # "live"
    /\ \A b \in run : heap[b][s].mem = "unalloc" =>
           \A q \in PeerIds : heap[b][q].mem = "unalloc" => s <= q
    /\ LET none == [b \in Backends |-> "readF"]
           R(b) == [heap |-> [heap[b] EXCEPT ![s] = Call_CreatePeerConnection(b)],
                    dcObj |-> [dcObj EXCEPT ![s] = "none"],
                    ret |-> s]
       IN  Commit({}, none, [b \in run |-> R(b)])
    /\ wire' = IF "ldc" \in run /\ ~crashed["ldc"]
               THEN [wire EXCEPT ![s] = <<>>] ELSE wire
    /\ hnd' = [b \in Backends |-> IF b \in run /\ ~crashed[b]
                                  THEN [hnd[b] EXCEPT ![s] = NULL] ELSE hnd[b]]
    /\ rt' = RtAfter("CreatePeerConnection", s, "", FALSE)
    /\ sent' = IF "ldc" \in run /\ ~crashed["ldc"]
               THEN [sent EXCEPT !["ldc"][DcAddr(s)] = <<>>] ELSE sent
    /\ recv' = IF "ldc" \in run /\ ~crashed["ldc"]
               THEN [recv EXCEPT !["ldc"][DcAddr(s)] = <<>>] ELSE recv
    /\ late' = Settled
    /\ UNCHANGED run

InitializePeerConnection(p) ==
    /\ Quiet
    /\ p \in PeerArgs
    /\ LET D == {b \in run : Dangling(b, p)}
       IN  \E uv \in Choices(D) :
             LET R(b) == Call_InitializePeerConnection(b, heap[b], dcObj, p, uv[b])
             IN  /\ Commit(D, uv, [b \in run |-> R(b)])
                 /\ rt' = RtAfter("InitializePeerConnection", p, "", FALSE)
    /\ late' = Settled
    /\ UNCHANGED <<run, wire, hnd, sent, recv>>

CreateDataChannel(p) ==
    /\ Quiet
    /\ p \in PeerArgs
    /\ LET D == {b \in run : Dangling(b, p)}
       IN  \E uv \in Choices(D) :
             LET R(b) == Call_CreateDataChannel(b, heap[b], dcObj, p, uv[b])
             IN  /\ Commit(D, uv, [b \in run |-> R(b)])
                 /\ hnd' = [b \in Backends |->
                              IF p # NULL /\ Ran(b, D, uv)
                              THEN [hnd[b] EXCEPT ![p] = R(b).ret] ELSE hnd[b]]
                 /\ rt' = RtAfter("CreateDataChannel", p, "", FALSE)
    /\ late' = Settled
    /\ UNCHANGED <<run, wire, sent, recv>>

CreateOffer(p) ==
    /\ Quiet
    /\ p \in PeerArgs
    /\ LET D == {b \in run : Dangling(b, p)}
       IN  \E uv \in Choices(D) :
             LET R(b) == Call_CreateOffer(b, heap[b], dcObj, p, uv[b])
             IN  /\ Commit(D, uv, [b \in run |-> R(b)])
                 /\ rt' = RtAfter("CreateOffer", p, "",
                                  Live("simple", p) /\ R("simple").ret = OK)
    /\ late' = Settled
    /\ UNCHANGED <<run, wire, hnd, sent, recv>>

\* exported by the simple and the minimal build only
CreateAnswer(p, offer_sdp) ==
    /\ run \subseteq Signalling
    /\ Quiet
    /\ p \in PeerArgs
    /\ offer_sdp \in SdpArgs
    /\ LET D == {b \in run : Dangling(b, p)}
       IN  \E uv \in Choices(D) :
             LET R(b) == Call_CreateAnswer(b, heap[b], dcObj, p, offer_sdp, uv[b])
             IN  /\ Commit(D, uv, [b \in run |-> R(b)])
                 /\ rt' = RtAfter("CreateAnswer", p, offer_sdp,
                                  Live("simple", p) /\ R("simple").ret = OK)
    /\ late' = Settled
    /\ UNCHANGED <<run, wire, hnd, sent, recv>>

\* exported by the simple and the minimal build only
SetRemoteDescription(p, sdp) ==
    /\ run \subseteq Signalling
    /\ Quiet
    /\ p \in PeerArgs
    /\ sdp \in SdpArgs
    /\ LET D == {b \in run : Dangling(b, p)}
       IN  \E uv \in Choices(D) :
             LET R(b) == Call_SetRemoteDescription(b, heap[b], dcObj, p, sdp, uv[b])
             IN  /\ Commit(D, uv, [b \in run |-> R(b)])
                 /\ rt' = RtAfter("SetRemoteDescription", p, sdp,
                                  Live("simple", p) /\ R("simple").ret = OK)
    /\ late' = Settled
    /\ UNCHANGED <<run, wire, hnd, sent, recv>>

\* the handle passed is the one the caller holds for peer p, null for p = 0
HandleOf(b, p) == IF p = NULL THEN NULL ELSE hnd[b][p]

\* the message a send of (data, length) carries
Payload(a) == IF a.data = NullData THEN <<>> ELSE a.data

RECURSIVE SumLen(_, _)
SumLen(f, S) ==
    IF S = {} THEN 0
    ELSE LET x == CHOOSE y \in S : TRUE
         IN  Len(f[x]) + SumLen(f, S \ {x})
TotalSent(b) == SumLen(sent[b], HandleVals)

SendData(p, a) ==
    /\ Quiet
    /\ p \in PeerArgs
    /\ a \in DataArgs
    /\ \A b \in run : TotalSent(b) < MaxSends
    /\ LET D == {b \in run : DanglingDc(b, HandleOf(b, p))}
       IN  \E uv \in Choices(D) :
             LET R(b) == Call_SendData(b, dcObj, wire, HandleOf(b, p),
                                       a.data, a.length, uv[b])
             IN  /\ wire' = IF Ran("ldc", D, uv) THEN R("ldc").wire ELSE wire
                 /\ sent' = [b \in Backends |->
                               IF Ran(b, D, uv) /\ R(b).ret = OK
                               THEN [sent[b] EXCEPT ![HandleOf(b, p)] =
                                        Append(@, Payload(a))]
                               ELSE sent[b]]
                 /\ crashed' = [b \in Backends |->
                                  crashed[b] \/ (b \in D /\ uv[b] = "crash")]
                 /\ rt' = RtSent(p, Ran("simple", D, uv) /\ R("simple").ret = OK)
    /\ late' = Settled
    /\ UNCHANGED <<run, heap, dcObj, hnd, recv>>

DestroyPeerConnection(p) ==
    /\ Quiet
    /\ p \in PeerArgs
    /\ LET D == {b \in run : Dangling(b, p)}
       IN  \E uv \in Choices(D) :
             LET R(b) == Call_DestroyPeerConnection(b, heap[b], dcObj, p)
             IN  /\ Commit(D, uv, [b \in run |-> R(b)])
                 /\ rt' = RtAfter("DestroyPeerConnection", p, "", FALSE)
                 /\ late' = IF Ran("ldc", D, uv) /\ Live("ldc", p)
                                 /\ heap["ldc"][p].pc = "negotiating"
                             THEN [Settled EXCEPT ![p] = "pending"] ELSE Settled
    /\ UNCHANGED <<run, wire, hnd, sent, recv>>

\* ------------------------------------- what the rtc library does by itself
\* the transport of a channel comes up: isOpen() turns true
RtcOpen(i) ==
    /\ "ldc" \in run /\ ~crashed["ldc"]
    /\ i \in PeerIds /\ dcObj[i] = "created"
    /\ dcObj' = [dcObj EXCEPT ![i] = "open"]
    /\ late' = Settled
    /\ UNCHANGED <<run, heap, wire, hnd, sent, recv, rt, crashed>>

\* the library hands the oldest queued message of an open channel to the
\* far end
RtcDeliver(i) ==
    /\ "ldc" \in run /\ ~crashed["ldc"]
    /\ i \in PeerIds /\ dcObj[i] = "open" /\ wire[i] # <<>>
    /\ wire' = [wire EXCEPT ![i] = Tail(@)]
    /\ recv' = [recv EXCEPT !["ldc"][i] = Append(@, Head(wire[i]))]
    /\ late' = Settled
    /\ UNCHANGED <<run, heap, dcObj, hnd, sent, rt, crashed>>

\* a variant where the completion is reported through a callback that has
\* captured the WebRTCPeer* and writes through it whoever holds the pc now
Ldc_Completion_ThroughPeer(h, p, owner) == [h EXCEPT ![p].pc = "idle"]

\* What the end of a negotiation does to the heap.  No export registers a
\* callback with the PeerConnection, so the library reports to nobody: the
\* negotiation is over in the PeerConnection peer->pc holds (owner "held"),
\* and a PeerConnection destroy has dropped (owner "dropped") ends with it.
Ldc_Completion(h, p, owner) ==
    IF owner = "held" THEN [h EXCEPT ![p].pc = "idle"] ELSE h

\* the negotiation setLocalDescription started completes inside the library
RtcComplete(p) ==
    /\ "ldc" \in run /\ ~crashed["ldc"]
    /\ p \in PeerIds /\ Live("ldc", p) /\ heap["ldc"][p].pc = "negotiating"
    /\ heap' = [heap EXCEPT !["ldc"] = Ldc_Completion(@, p, "held")]
    /\ late' = Settled
    /\ UNCHANGED <<run, dcObj, wire, hnd, sent, recv, rt, crashed>>

\* the negotiation of a PeerConnection that DestroyPeerConnection dropped
\* while it was pending comes to its end after the destroy
RtcLate(p) ==
    /\ "ldc" \in run /\ ~crashed["ldc"]
    /\ p \in PeerIds /\ late[p] = "pending"
    /\ heap' = [heap EXCEPT !["ldc"] = Ldc_Completion(@, p, "dropped")]
    /\ late' = [Settled EXCEPT ![p] = "ignored"]
    /\ UNCHANGED <<run, dcObj, wire, hnd, sent, recv, rt, crashed>>

Next ==
    \/ \E s \in PeerIds : CreatePeerConnection(s)
    \/ \E p \in PeerArgs : InitializePeerConnection(p)
    \/ \E p \in PeerArgs : CreateDataChannel(p)
    \/ \E p \in PeerArgs : CreateOffer(p)
    \/ \E p \in PeerArgs, sdp \in SdpArgs : CreateAnswer(p, sdp)
    \/ \E p \in PeerArgs, sdp \in SdpArgs : SetRemoteDescription(p, sdp)
    \/ \E p \in PeerArgs, a \in DataArgs : SendData(p, a)
    \/ \E p \in PeerArgs : DestroyPeerConnection(p)
    \/ \E i \in PeerIds : RtcOpen(i)
    \/ \E i \in PeerIds : RtcDeliver(i)
    \/ \E p \in PeerIds : RtcComplete(p)
    \/ \E p \in PeerIds : RtcLate(p)

Spec == Init /\ [][Next]_vars

\* the library delivers what it has queued
FairSpec == Spec /\ \A i \in PeerIds : WF_vars(RtcDeliver(i))

\* ------------------------------------------------------------ the claims
\* The session state of spec 4.2, as far as the struct records it.
SessionState(pr) ==
    CASE pr.mem = "unalloc" -> "None"
      [] pr.mem = "freed" -> "Closed"
      [] pr.mem = "live" /\ ~pr.initialized -> "Uninitialized"
      [] pr.mem = "live" /\ pr.initialized /\ pr.connected -> "Connected"
      [] pr.mem = "live" /\ pr.initialized /\ ~pr.connected
            /\ pr.local_sdp = OfferSdp -> "OfferCreated"
      [] pr.mem = "live" /\ pr.initialized /\ ~pr.connected
            /\ pr.local_sdp = AnswerSdp -> "AnswerCreated"
      [] OTHER -> "Initialized"

\* The channel of peer p is Open: isOpen() in the ldc build; in the builds
\* without a channel object, from the moment the peer is marked connected.
ChannelOpen(b, p) ==
    IF b = "ldc" THEN dcObj[p] = "open" ELSE heap[b][p].connected

\* a call made now on the running build b
Running(b) == b \in run /\ ~crashed[b]
Offer(b, p) == Call_CreateOffer(b, heap[b], dcObj, p, "readF")
Answer(b, p, sdp) == Call_CreateAnswer(b, heap[b], dcObj, p, sdp, "readF")
Remote(b, p, sdp) == Call_SetRemoteDescription(b, heap[b], dcObj, p, sdp, "readF")
Initialize(b, p) == Call_InitializePeerConnection(b, heap[b], dcObj, p, "readF")
Channel(b, p) == Call_CreateDataChannel(b, heap[b], dcObj, p, "readF")
Send(b, p, a) ==
    Call_SendData(b, dcObj, wire, HandleOf(b, p), a.data, a.length, "readF")
Rejected(b, r) == r.ret = FAIL /\ r.heap = heap[b] /\ r.dcObj = dcObj

C3_ChannelNeedsInitialize ==
    \A b \in Backends, s \in PeerIds :
        (Running(b) /\ heap[b][s].mem # "live") =>
            LET created == [heap[b] EXCEPT ![s] = Call_CreatePeerConnection(b)]
                r == Call_CreateDataChannel(b, created, dcObj, s, "readF")
            IN  /\ r.ret = NULL
                /\ r.heap[s].data_channel = NULL
                /\ r.heap[s].dc = NULL

\* C4: no allocation is ever released twice: no reachable state holds a
\* connection that delete was applied to a second time.
C4_DestroyIdempotent ==
    \A b \in Backends, p \in PeerIds :
        b \in run => heap[b][p].frees # "twice"

\* C5: a send on the handle createDataChannel returned for a live
\* connection fails, whatever the payload, while the channel is not Open.
C5_SendNeedsOpen ==
    \A b \in Backends, p \in PeerIds :
        (Running(b) /\ Live(b, p) /\ hnd[b][p] # NULL /\ ~ChannelOpen(b, p)) =>
            \A a \in DataArgs : Send(b, p, a).ret = FAIL

\* C6: on an Open channel a send of a non-null buffer of length zero
\* succeeds, in every build.
C6_EmptyPayloadSent ==
    \A b \in Backends, p \in PeerIds :
        (Running(b) /\ Live(b, p) /\ hnd[b][p] # NULL /\ ChannelOpen(b, p)) =>
            Send(b, p, [data |-> <<>>, length |-> 0]).ret = OK

\* C7: once createOffer on a, createAnswer on c with the offer a stores
\* and setRemoteDescription on a with the answer c stores have succeeded
\* in this order, a is connected, the remote description of a is the
\* local answer of c and the remote description of c is the local offer
\* of a.
C7_RoundTrip ==
    \A a, c \in PeerIds :
        (Running("simple") /\ rt[a][c] = 3) =>
            /\ SessionState(heap["simple"][a]) = "Connected"
            /\ heap["simple"][a].local_sdp = OfferSdp
            /\ heap["simple"][c].local_sdp = AnswerSdp
            /\ heap["simple"][a].remote_sdp = heap["simple"][c].local_sdp
            /\ heap["simple"][c].remote_sdp = heap["simple"][a].local_sdp

C7_Witness == Running("simple") /\ rt[1][2] = 3

\* the exchange a -> c is complete and a send on a's channel has returned 0
\* since
Exchanged(a, c) ==
    /\ "simple" \in run /\ a # c /\ rt[a][c] = 4
    /\ hnd["simple"][a] = MockHandle

\* C8: once a and c have completed the exchange, the payloads of the
\* successful sends on a's channel are in the end the payloads delivered
\* at the far end, one delivery for each send and in the order of the
\* sends.
C8_SendsDelivered ==
    \A a, c \in PeerIds :
        (Exchanged(a, c) /\ sent["simple"][MockHandle] # recv["simple"][MockHandle])
            ~> (sent["simple"][MockHandle] = recv["simple"][MockHandle])

\* C9: driven side by side, the minimal, the simple and the mock build
\* agree, for every call that could come next, on whether it succeeds, and
\* they agree on the initialized and connected flag of every connection.
C9_StandInsAgree ==
    run = StandIns =>
        \A b1, b2 \in StandIns :
            /\ \A p \in PeerIds :
                  /\ heap[b1][p].initialized = heap[b2][p].initialized
                  /\ heap[b1][p].connected = heap[b2][p].connected
            /\ \A p \in PeerArgs :
                  /\ Initialize(b1, p).ret = Initialize(b2, p).ret
                  /\ (Channel(b1, p).ret = NULL) <=> (Channel(b2, p).ret = NULL)
                  /\ Offer(b1, p).ret = Offer(b2, p).ret
                  /\ \A a \in DataArgs : Send(b1, p, a).ret = Send(b2, p, a).ret

C11_EmptyDescriptionRejected ==
    \A b \in Signalling, p \in PeerIds :
        (Running(b) /\ Live(b, p)) =>
            LET r == Remote(b, p, "")
            IN  /\ r.ret = FAIL
                /\ r.heap[p].connected = heap[b][p].connected
                /\ r.heap[p].remote_sdp = heap[b][p].remote_sdp

\* how far a session state is along the state machine
Rank(st) ==
    CASE st = "Uninitialized" -> 1
      [] st = "Initialized" -> 2
      [] st \in {"OfferCreated", "AnswerCreated"} -> 3
      [] st = "Connected" -> 4
      [] OTHER -> 0

C13_CreatedUninitialized ==
    [][\A b \in Backends, s \in PeerIds :
          (b \in run /\ heap[b][s].mem # "live" /\ heap'[b][s].mem = "live") =>
              /\ SessionState(heap'[b][s]) = "Uninitialized"
              /\ ~heap'[b][s].initialized /\ ~heap'[b][s].connected
              /\ heap'[b][s].local_sdp = "" /\ heap'[b][s].remote_sdp = ""
              /\ heap'[b][s].data_channel = NULL /\ heap'[b][s].dc = NULL]_vars

\* C14: once a connection is destroyed, every send on the channel handle
\* the caller got from it fails, whatever the payload and whenever it is
\* issued.
C14_DestroyClosesChannel ==
    \A b \in Backends, p \in PeerIds :
        (Running(b) /\ heap[b][p].mem = "freed" /\ hnd[b][p] # NULL) =>
            \A a \in DataArgs, u \in {"readT", "readF"} :
                Call_SendData(b, dcObj, wire, hnd[b][p], a.data, a.length,
                              u).ret = FAIL

\* C15: the channel handles the caller holds for two different live
\* connections are different.
C15_HandleOwnedByOne ==
    \A b \in Backends, p, q \in PeerIds :
        (b \in run /\ p # q /\ Live(b, p) /\ Live(b, q)
           /\ hnd[b][p] # NULL /\ hnd[b][q] # NULL) =>
            hnd[b][p] # hnd[b][q]

\* C16: once a live connection stores a non-empty local description no
\* step changes it, and the same for its remote description.
C16_DescriptionImmutable ==
    [][\A b \in Backends, p \in PeerIds :
          (Live(b, p) /\ heap'[b][p].mem = "live") =>
              /\ heap[b][p].local_sdp # "" =>
                     heap'[b][p].local_sdp = heap[b][p].local_sdp
              /\ heap[b][p].remote_sdp # "" =>
                     heap'[b][p].remote_sdp = heap[b][p].remote_sdp]_vars

\* C17: createOffer on a live connection in state Initialized returns 0,
\* leaves a non-empty offer as the connection's local description and
\* leaves its remote description and its connected flag as they were.
C17_OfferStored ==
    \A b \in Backends, p \in PeerIds :
        (Running(b) /\ Live(b, p)
           /\ SessionState(heap[b][p]) = "Initialized") =>
            LET r == Offer(b, p)
            IN  /\ r.ret = OK
                /\ r.heap[p].local_sdp # ""
                /\ r.heap[p].remote_sdp = heap[b][p].remote_sdp
                /\ r.heap[p].connected = heap[b][p].connected

\* the pointers a caller can pass: null, or any create has returned
Passable(b) == {NULL} \cup {p \in PeerIds : heap[b][p].mem # "unalloc"}

\* C19: in every reachable state, a call of initialize, createDataChannel,
\* createOffer, createAnswer, setRemoteDescription or send that returns -1
\* (or the null handle) leaves every field of every connection, every
\* channel object and every queued payload as it was.
C19_FailureChangesNothing ==
    \A b \in Backends :
        Running(b) =>
            /\ \A p \in Passable(b), u \in {"readT", "readF"} :
                  LET Same(r) == r.heap = heap[b] /\ r.dcObj = dcObj
                      ini == Call_InitializePeerConnection(b, heap[b], dcObj, p, u)
                      chn == Call_CreateDataChannel(b, heap[b], dcObj, p, u)
                      off == Call_CreateOffer(b, heap[b], dcObj, p, u)
                  IN  /\ ini.ret = FAIL => Same(ini)
                      /\ chn.ret = NULL => Same(chn)
                      /\ off.ret = FAIL => Same(off)
                      /\ b \in Signalling =>
                           \A sdp \in SdpArgs :
                              LET ans == Call_CreateAnswer(b, heap[b], dcObj, p,
                                                           sdp, u)
                                  rem == Call_SetRemoteDescription(b, heap[b],
                                                           dcObj, p, sdp, u)
                              IN  /\ ans.ret = FAIL => Same(ans)
                                  /\ rem.ret = FAIL => Same(rem)
            /\ \A p \in Passable(b), a \in DataArgs, u \in {"readT", "readF"} :
                  LET snd == Call_SendData(b, dcObj, wire, HandleOf(b, p),
                                           a.data, a.length, u)
                  IN  snd.ret = FAIL => snd.wire = wire

\* the mock build holds a live connection every guard refuses next to one
\* with a channel, and the caller holds that channel's handle
C19_Witness ==
    \E p, q \in PeerIds :
        /\ Running("mock")
        /\ Live("mock", p) /\ ~heap["mock"][p].initialized
        /\ Live("mock", q) /\ hnd["mock"][q] # NULL

\* C20: createDataChannel leaves the initialized flag, the connected flag
\* and the descriptions of the connection as they were, whether it
\* succeeds or fails, and every connected connection is initialized.
C20_ChannelKeepsSessionState ==
    \A b \in Backends, p \in PeerIds :
        (Running(b) /\ Live(b, p)) =>
            LET r == Channel(b, p)
            IN  /\ r.heap[p].initialized = heap[b][p].initialized
                /\ r.heap[p].connected = heap[b][p].connected
                /\ r.heap[p].local_sdp = heap[b][p].local_sdp
                /\ r.heap[p].remote_sdp = heap[b][p].remote_sdp
                /\ heap[b][p].connected => heap[b][p].initialized

=============================================================================
